---- MODULE Spec2Model ----
(***************************************************************************)
(* The VEP look-up-table compiler of util/create_vep_lut.py.               *)
(*                                                                         *)
(* create_luts reads a reference atlas (FreeSurfer colour LUT), a parsed   *)
(* rule list and a target region table, validates them against each other  *)
(* and then writes four tables.  A table is a sequence of lines; a data    *)
(* line is the tuple of its whitespace separated columns, the banner that  *)
(* create_vep_fs_lut writes is made of comment and blank lines.            *)
(***************************************************************************)
EXTENDS Integers, Sequences, FiniteSets, TLC

VARIABLES
    fs_lut_file,       \* lines of the reference LUT: <<index, name, R, G, B, A>>
    vep_rules_file,    \* what load_rules returns: <<kind, arg, output fields>>
    vep_regions_file,  \* lines of the target table: <<is_cortical, name, R, G, B, A>>
    newregs,           \* the rule outputs collected by create_luts
    out,               \* the four output files, NoFile until opened for writing
    pc,                \* position in create_luts
    err                \* <<kind, detail>> of the exception that ended the run

vars == <<fs_lut_file, vep_rules_file, vep_regions_file, newregs, out, pc, err>>

(***************************************************************************)
(* Program constants.                                                      *)
(***************************************************************************)
SHIFT_LH == 71000
SHIFT_RH == 72000

\* ["%%%d" % i for i in range(10)]
TempRegs == {"%0", "%1", "%2", "%3", "%4", "%5", "%6", "%7", "%8", "%9"}

(***************************************************************************)
(* Bounds of the model and the vocabulary the inputs are drawn from.       *)
(***************************************************************************)
MaxRegions == 3
MaxRules == 1
MaxRefRows == 2

RegionNames == {"Hippocampus", "Amygdala"}

\* Rule outputs that contain the hemisphere placeholder.
HemiTemplates == {"%H-" \o r : r \in RegionNames}

RulePool ==
    << <<"rename", "ctx-%H-parahippocampal", <<"%H-Hippocampus">> >>,
       <<"split", "ctx-%H-temporal", <<"%H-Hippocampus", "%H-Amygdala">> >>,
       <<"splitnl", "ctx-%H-insula", <<"%1", "%H-Amygdala">> >>,
       <<"merge", "Brain-Stem", <<"Brain-Stem">> >> >>

RefPool ==
    << <<17, "Left-Hippocampus", 220, 216, 20, 0>>,
       <<53, "Right-Hippocampus", 220, 216, 20, 0>>,
       <<71001, "Left-Custom", 60, 60, 60, 0>> >>

\* Rows of the target table: cortical and subcortical rows of both
\* regions, rows that share a colour, rows that share a name.
TargetRows ==
    { <<1, "Hippocampus", 220, 20, 10, 0>>,
      <<1, "Amygdala", 20, 220, 10, 0>>,
      <<1, "Amygdala", 220, 20, 10, 0>>,
      <<0, "Hippocampus", 220, 20, 10, 0>>,
      <<0, "Amygdala", 20, 220, 10, 0>>,
      <<0, "Hippocampus", 20, 30, 140, 0>> }

SeqsUpTo(S, n) == UNION {[1..k -> S] : k \in 0..n}

\* The order preserving subsequences of pool with at most n elements.
SubSeqsUpTo(pool, n) ==
    LET Pick(I) == [k \in 1..Cardinality(I) |->
                      pool[CHOOSE i \in I : Cardinality({j \in I : j <= i}) = k]]
    IN {Pick(I) : I \in {J \in SUBSET (1..Len(pool)) : Cardinality(J) <= n}}

(***************************************************************************)
(* Helpers shared by the functions of the file.                            *)
(***************************************************************************)
\* An output file: never opened, or the lines written to it so far.
NoFile == [opened |-> FALSE, lines |-> <<>>]
File(lines) == [opened |-> TRUE, lines |-> lines]
\* A line is the tuple of its columns; what follows "#" is no column, so a
\* comment line has none, like a blank line.
CommentLine == <<>>
BlankLine == <<>>
OutputFiles == {"vep_fs_lut_file", "vep_mrtrix_lut_file", "vep_subcort_file",
                "vep_aparc_lut_file"}

IsData(line) == Len(line) > 0

RECURSIVE DataLines(_)
DataLines(lines) ==
    IF lines = <<>> THEN <<>>
    ELSE IF IsData(Head(lines)) THEN <<Head(lines)>> \o DataLines(Tail(lines))
    ELSE DataLines(Tail(lines))

\* np.genfromtxt(file, usecols=(c,)): column c of the data lines, comments
\* and blank lines skipped (columns counted from 1 here).
GenFromTxt(lines, c) ==
    LET data == DataLines(lines) IN [k \in 1..Len(data) |-> data[k][c]]

\* np.genfromtxt(file, usecols=(2,3,4,5))
GenFromTxtColors(lines) ==
    LET data == DataLines(lines) IN [k \in 1..Len(data) |-> SubSeq(data[k], 3, 6)]

\* A one-line table comes back from genfromtxt as a 0-d array, which neither
\* list() nor zip() can iterate.
ZeroDim(lines) == Len(DataLines(lines)) = 1

InSeq(x, s) == \E k \in 1..Len(s) : s[k] = x

\* list.index: the first position of x, 0 standing for ValueError.
Index(s, x) ==
    IF InSeq(x, s) THEN CHOOSE k \in 1..Len(s) : s[k] = x /\ \A j \in 1..(k-1) : s[j] # x
    ELSE 0

\* The elements of s whose mask is set, in order (boolean array indexing).
RECURSIVE Masked(_, _)
Masked(s, mask) ==
    IF s = <<>> THEN <<>>
    ELSE IF Head(mask) THEN <<Head(s)>> \o Masked(Tail(s), Tail(mask))
    ELSE Masked(Tail(s), Tail(mask))

Not(mask) == [k \in 1..Len(mask) |-> ~mask[k]]

RECURSIVE CommaJoin(_)
CommaJoin(fields) ==
    IF Len(fields) = 0 THEN ""
    ELSE IF Len(fields) = 1 THEN fields[1]
    ELSE fields[1] \o "," \o CommaJoin(Tail(fields))

\* "%H" in reg, over the names of the model.
ContainsH(reg) == reg \in HemiTemplates

(***************************************************************************)
(* duplicates(keys, values)                                                *)
(***************************************************************************)
RECURSIVE DupLoop(_, _, _, _, _)
DupLoop(keys, values, j, dct, dups) ==
    IF j > Len(keys) \/ j > Len(values) THEN dups
    ELSE IF \E p \in dct : p[1] = keys[j]
         THEN DupLoop(keys, values, j + 1, dct,
                      Append(dups, <<keys[j], (CHOOSE p \in dct : p[1] = keys[j])[2],
                                     values[j]>>))
         ELSE DupLoop(keys, values, j + 1, dct \cup {<<keys[j], values[j]>>}, dups)

\* Variant: dct[k] = v is done for every pair, so the last region seen with
\* a colour is remembered, not the first.
RECURSIVE DupLoop_LastSeen(_, _, _, _, _)
DupLoop_LastSeen(keys, values, j, dct, dups) ==
    IF j > Len(keys) \/ j > Len(values) THEN dups
    ELSE IF \E p \in dct : p[1] = keys[j]
         THEN DupLoop_LastSeen(keys, values, j + 1,
                               {p \in dct : p[1] # keys[j]} \cup {<<keys[j], values[j]>>},
                               Append(dups, <<keys[j],
                                              (CHOOSE p \in dct : p[1] = keys[j])[2],
                                              values[j]>>))
         ELSE DupLoop_LastSeen(keys, values, j + 1, dct \cup {<<keys[j], values[j]>>}, dups)

duplicates_LastSeen(keys, values) == DupLoop_LastSeen(keys, values, 1, {}, <<>>)

duplicates(keys, values) == DupLoop(keys, values, 1, {}, <<>>)

(***************************************************************************)
(* create_luts, lines 29-46: what it loads.                                *)
(***************************************************************************)
fs_regs == GenFromTxt(fs_lut_file, 2)
vep_regs == GenFromTxt(vep_regions_file, 2)
vep_iscort == [k \in 1..Len(DataLines(vep_regions_file)) |->
                 DataLines(vep_regions_file)[k][1] # 0]
vep_colors == GenFromTxtColors(vep_regions_file)

RECURSIVE ExpandRules(_)
ExpandRules(rules) ==
    IF rules = <<>> THEN <<>>
    ELSE LET rule == Head(rules) IN
         (IF rule[1] \in {"merge", "rename"} THEN <<CommaJoin(rule[3])>>
          ELSE IF rule[1] \in {"split", "splitnl"} THEN rule[3]
          ELSE <<>>) \o ExpandRules(Tail(rules))

FilterTemp(regs) == Masked(regs, [k \in 1..Len(regs) |-> regs[k] \notin TempRegs])

NoError == <<"none", <<>> >>

\* The exceptions of the validation part of create_luts (lines 42-64).
ValidatorErrors ==
    {"MalformedRule", "DuplicateColor", "MissingRule", "SubcortCoverage", "Ordering"}

Init ==
    /\ fs_lut_file \in SubSeqsUpTo(RefPool, MaxRefRows)
    /\ vep_rules_file \in SubSeqsUpTo(RulePool, MaxRules)
    /\ vep_regions_file \in SeqsUpTo(TargetRows, MaxRegions)
    /\ newregs = <<>>
    /\ out = [f \in OutputFiles |-> NoFile]
    /\ pc = "load_rules"
    /\ err = NoError

Fail(kind, detail) == pc' = "failed" /\ err' = <<kind, detail>>

Goto(label) == pc' = label /\ err' = err

Inputs == <<fs_lut_file, vep_rules_file, vep_regions_file>>

\* Lines 29-42: load the reference names and the rules, collect the rule
\* outputs, drop the temporary regions, assert the placeholder.
LoadRules ==
    /\ pc = "load_rules"
    /\ UNCHANGED <<Inputs, out>>
    /\ IF ZeroDim(fs_lut_file)
       THEN newregs' = newregs /\ Fail("TypeError", "fs_lut_file")
       ELSE /\ newregs' = FilterTemp(ExpandRules(vep_rules_file))
            /\ IF \A k \in 1..Len(newregs') : ContainsH(newregs'[k])
               THEN Goto("check_colors")
               ELSE Fail("MalformedRule", <<>>)

\* Lines 44-50: load the target table and reject duplicate colours.
CheckColors ==
    /\ pc = "check_colors"
    /\ UNCHANGED <<Inputs, newregs, out>>
    /\ IF ZeroDim(vep_regions_file)
       THEN Fail("TypeError", "vep_regions_file")
       ELSE LET duplicate_colors == duplicates(vep_colors, vep_regs) IN
            IF Len(duplicate_colors) > 0
            THEN Fail("DuplicateColor", duplicate_colors)
            ELSE Goto("check_cortical")

\* Lines 53-56: every cortical region needs the rule output "%H-<region>";
\* the first one without it is reported.
\* Variant: the loop runs over every region, not the cortical ones.
MissingRules_AllRegions(regs, iscort, nregs) ==
    Masked(regs, [k \in 1..Len(regs) |-> ~InSeq("%H-" \o regs[k], nregs)])

MissingRules(regs, iscort, nregs) ==
    LET cort == Masked(regs, iscort)
    IN Masked(cort, [k \in 1..Len(cort) |-> ~InSeq("%H-" \o cort[k], nregs)])

CheckCortical ==
    /\ pc = "check_cortical"
    /\ UNCHANGED <<Inputs, newregs, out>>
    /\ LET missing == MissingRules(vep_regs, vep_iscort, newregs) IN
       IF missing # <<>>
       THEN Fail("MissingRule", Head(missing))
       ELSE Goto("check_subcortical")

\* Lines 58-60: a subcortical region is in the rules or, with both
\* hemispheres, in the reference table.
SubcortCovered(reg, nregs, fsregs) ==
    \/ InSeq("%H-" \o reg, nregs)
    \/ (InSeq("Left-" \o reg, fsregs) /\ InSeq("Right-" \o reg, fsregs))

CheckSubcortical ==
    /\ pc = "check_subcortical"
    /\ UNCHANGED <<Inputs, newregs, out>>
    /\ LET subcort == Masked(vep_regs, Not(vep_iscort)) IN
       IF \A k \in 1..Len(subcort) : SubcortCovered(subcort[k], newregs, fs_regs)
       THEN Goto("check_ordering")
       ELSE Fail("SubcortCoverage", <<>>)

\* Lines 63-64: np.all(vep_iscort[:-1] >= vep_iscort[1:])
\* Variant: the comparison is turned round.
CorticalFirst_Reversed(iscort) ==
    \A k \in 1..(Len(iscort) - 1) : ~iscort[k] \/ iscort[k + 1]

CorticalFirst(iscort) ==
    \A k \in 1..(Len(iscort) - 1) : iscort[k] \/ ~iscort[k + 1]

\* Variant: the ordering is asserted after the combined LUT is written.
CheckOrdering_AfterFsLut ==
    /\ pc = "check_ordering"
    /\ UNCHANGED <<Inputs, newregs>>
    /\ out' = [out EXCEPT !["vep_fs_lut_file"] = File(fs_lut_file)]
    /\ IF \A k \in 1..(Len(vep_iscort) - 1) : vep_iscort[k] \/ ~vep_iscort[k + 1]
       THEN Goto("create_vep_fs_lut")
       ELSE Fail("Ordering", <<>>)

CheckOrdering ==
    /\ pc = "check_ordering"
    /\ UNCHANGED <<Inputs, newregs, out>>
    /\ IF CorticalFirst(vep_iscort)
       THEN Goto("create_vep_fs_lut")
       ELSE Fail("Ordering", <<>>)

\* Lines 29-64 as a function of the three inputs: the exception create_luts
\* raises before it calls the first builder, or NoError.
Validate(fslut, rules, regions) ==
    LET nregs == FilterTemp(ExpandRules(rules))
        regs == GenFromTxt(regions, 2)
        iscort == [k \in 1..Len(DataLines(regions)) |-> DataLines(regions)[k][1] # 0]
        dups == duplicates(GenFromTxtColors(regions), regs)
        missing == MissingRules(regs, iscort, nregs)
        subcort == Masked(regs, Not(iscort))
    IN IF ZeroDim(fslut) THEN <<"TypeError", "fs_lut_file">>
       ELSE IF ~(\A k \in 1..Len(nregs) : ContainsH(nregs[k])) THEN <<"MalformedRule", <<>> >>
       ELSE IF ZeroDim(regions) THEN <<"TypeError", "vep_regions_file">>
       ELSE IF Len(dups) > 0 THEN <<"DuplicateColor", dups>>
       ELSE IF missing # <<>> THEN <<"MissingRule", Head(missing)>>
       ELSE IF ~(\A k \in 1..Len(subcort) :
                   SubcortCovered(subcort[k], nregs, GenFromTxt(fslut, 2)))
            THEN <<"SubcortCoverage", <<>> >>
       ELSE IF ~CorticalFirst(iscort) THEN <<"Ordering", <<>> >>
       ELSE NoError

(***************************************************************************)
(* create_vep_fs_lut                                                       *)
(***************************************************************************)
Hemis == << <<"Left", SHIFT_LH>>, <<"Right", SHIFT_RH>> >>

\* "\n\n#\n# Labels for the VEP parcellation\n#\n\n"
Banner == <<BlankLine, BlankLine, CommentLine, CommentLine, CommentLine, BlankLine>>

\* The inner loop of lines 91-98 for one hemisphere, from region j with
\* counter i.
\* Variant: the counter also advances over a skipped region.
RECURSIVE FsLutBlock_CountsSkipped(_, _, _, _, _, _, _)
FsLutBlock_CountsSkipped(hemi, hnum, regs, colors, fsregs, j, i) ==
    IF j > Len(regs) \/ j > Len(colors) THEN <<>>
    ELSE LET full_reg_name == hemi \o "-" \o regs[j] IN
         IF InSeq(full_reg_name, fsregs)
         THEN FsLutBlock_CountsSkipped(hemi, hnum, regs, colors, fsregs, j + 1, i + 1)
         ELSE << <<hnum + i, full_reg_name>> \o colors[j] >>
              \o FsLutBlock_CountsSkipped(hemi, hnum, regs, colors, fsregs, j + 1, i + 1)

\* Variant: a region is skipped when its Left name is a reference name,
\* whichever hemisphere is being written.
RECURSIVE FsLutBlock_SkipsByLeftName(_, _, _, _, _, _, _)
FsLutBlock_SkipsByLeftName(hemi, hnum, regs, colors, fsregs, j, i) ==
    IF j > Len(regs) \/ j > Len(colors) THEN <<>>
    ELSE LET full_reg_name == hemi \o "-" \o regs[j] IN
         IF InSeq("Left-" \o regs[j], fsregs)
         THEN FsLutBlock_SkipsByLeftName(hemi, hnum, regs, colors, fsregs, j + 1, i)
         ELSE << <<hnum + i, full_reg_name>> \o colors[j] >>
              \o FsLutBlock_SkipsByLeftName(hemi, hnum, regs, colors, fsregs, j + 1, i + 1)

RECURSIVE FsLutBlock(_, _, _, _, _, _, _)
FsLutBlock(hemi, hnum, regs, colors, fsregs, j, i) ==
    IF j > Len(regs) \/ j > Len(colors) THEN <<>>
    ELSE LET full_reg_name == hemi \o "-" \o regs[j] IN
         IF InSeq(full_reg_name, fsregs)
         THEN FsLutBlock(hemi, hnum, regs, colors, fsregs, j + 1, i)
         ELSE << <<hnum + i, full_reg_name>> \o colors[j] >>
              \o FsLutBlock(hemi, hnum, regs, colors, fsregs, j + 1, i + 1)

VepFsLut(regs, colors, fsregs, lines) ==
    lines \o Banner
          \o FsLutBlock(Hemis[1][1], Hemis[1][2], regs, colors, fsregs, 1, 1)
          \o FsLutBlock(Hemis[2][1], Hemis[2][2], regs, colors, fsregs, 1, 1)

CreateVepFsLut ==
    /\ pc = "create_vep_fs_lut"
    /\ UNCHANGED <<Inputs, newregs>>
    /\ out' = [out EXCEPT !["vep_fs_lut_file"] =
                 File(VepFsLut(vep_regs, vep_colors, fs_regs, fs_lut_file))]
    /\ Goto("create_vep_mrtrix_lut")

(***************************************************************************)
(* create_vep_mrtrix_lut                                                   *)
(***************************************************************************)
\* A builder's result: the output file as it is when the builder returned
\* or raised, and the exception ("none" when it returned).
Written(file, raised) == [file |-> file, raised |-> raised]

\* The end of a builder action on output file f: the file is left as the
\* builder left it, and the run goes on to label or ends with the exception.
Finish(f, w, label) ==
    /\ out' = [out EXCEPT ![f] = w.file]
    /\ IF w.raised = "none" THEN Goto(label) ELSE Fail(w.raised, f)

\* Variant: the counter restarts at 1 for each hemisphere, as it does in
\* create_vep_fs_lut.
RECURSIVE MrtrixLoop_RestartsPerHemi(_, _, _, _, _, _, _)
MrtrixLoop_RestartsPerHemi(regs, names, colors, h, j, i, acc) ==
    IF h > Len(Hemis) THEN Written(File(acc), "none")
    ELSE IF j > Len(regs)
         THEN MrtrixLoop_RestartsPerHemi(regs, names, colors, h + 1, 1, 1, acc)
    ELSE LET regname == Hemis[h][1] \o "-" \o regs[j]
             ind == Index(names, regname)
         IN IF ind = 0 THEN Written(File(acc), "ValueError")
            ELSE MrtrixLoop_RestartsPerHemi(regs, names, colors, h, j + 1, i + 1,
                                            Append(acc, <<i, regname>> \o colors[ind]))

\* Lines 108-113 from hemisphere h, region j, counter i, after acc.
RECURSIVE MrtrixLoop(_, _, _, _, _, _, _)
MrtrixLoop(regs, names, colors, h, j, i, acc) ==
    IF h > Len(Hemis) THEN Written(File(acc), "none")
    ELSE IF j > Len(regs) THEN MrtrixLoop(regs, names, colors, h + 1, 1, i, acc)
    ELSE LET regname == Hemis[h][1] \o "-" \o regs[j]
             ind == Index(names, regname)
         IN IF ind = 0 THEN Written(File(acc), "ValueError")
            ELSE MrtrixLoop(regs, names, colors, h, j + 1, i + 1,
                            Append(acc, <<i, regname>> \o colors[ind]))

\* Lines 102-106: list() of a 0-d array raises before the file is opened.
VepMrtrixLut(regs, fslut) ==
    IF ZeroDim(fslut) THEN Written(NoFile, "TypeError")
    ELSE MrtrixLoop(regs, GenFromTxt(fslut, 2), GenFromTxtColors(fslut), 1, 1, 1,
                    << <<0, "Unknown", 0, 0, 0, 0>> >>)

CreateVepMrtrixLut ==
    /\ pc = "create_vep_mrtrix_lut"
    /\ UNCHANGED <<Inputs, newregs>>
    /\ Finish("vep_mrtrix_lut_file",
              VepMrtrixLut(vep_regs, out["vep_fs_lut_file"].lines),
              "create_subcort_list")

(***************************************************************************)
(* create_subcort_list                                                     *)
(***************************************************************************)
\* Variant: the position in the combined LUT is written, not its index.
RECURSIVE SubcortLoop_WritesPosition(_, _, _, _, _, _)
SubcortLoop_WritesPosition(regs, fs_names, fs_inds, h, j, acc) ==
    IF h > Len(Hemis) THEN Written(File(acc), "none")
    ELSE IF j > Len(regs)
         THEN SubcortLoop_WritesPosition(regs, fs_names, fs_inds, h + 1, 1, acc)
    ELSE LET name == Hemis[h][1] \o "-" \o regs[j]
             ind == Index(fs_names, name)
         IN IF ind = 0 THEN Written(File(acc), "ValueError")
            ELSE SubcortLoop_WritesPosition(regs, fs_names, fs_inds, h, j + 1,
                                            Append(acc, <<ind>>))

\* Lines 121-124 from hemisphere h, region j, after acc.
RECURSIVE SubcortLoop(_, _, _, _, _, _)
SubcortLoop(regs, fs_names, fs_inds, h, j, acc) ==
    IF h > Len(Hemis) THEN Written(File(acc), "none")
    ELSE IF j > Len(regs) THEN SubcortLoop(regs, fs_names, fs_inds, h + 1, 1, acc)
    ELSE LET name == Hemis[h][1] \o "-" \o regs[j]
             ind == Index(fs_names, name)
         IN IF ind = 0 THEN Written(File(acc), "ValueError")
            ELSE SubcortLoop(regs, fs_names, fs_inds, h, j + 1,
                             Append(acc, <<fs_inds[ind]>>))

SubcortList(vep_subcort_regions, vep_fs_lut) ==
    IF ZeroDim(vep_fs_lut) THEN Written(NoFile, "TypeError")
    ELSE SubcortLoop(vep_subcort_regions, GenFromTxt(vep_fs_lut, 2),
                     GenFromTxt(vep_fs_lut, 1), 1, 1, <<>>)

CreateSubcortList ==
    /\ pc = "create_subcort_list"
    /\ UNCHANGED <<Inputs, newregs>>
    /\ Finish("vep_subcort_file",
              SubcortList(Masked(vep_regs, Not(vep_iscort)), out["vep_fs_lut_file"].lines),
              "create_parc_lut")

(***************************************************************************)
(* create_parc_lut                                                         *)
(***************************************************************************)
\* Lines 78-80 from enumerate index i, after acc.
RECURSIVE ParcLoop(_, _, _, _, _)
ParcLoop(regs, names, colors, i, acc) ==
    IF i + 1 > Len(regs) THEN Written(File(acc), "none")
    ELSE LET reg == regs[i + 1]
             ind == Index(names, "Left-" \o reg)
         IN IF ind = 0 THEN Written(File(acc), "ValueError")
            ELSE ParcLoop(regs, names, colors, i + 1,
                          Append(acc, <<i + 1, reg>> \o colors[ind]))

ParcLut(regs, vep_fs_lut) ==
    IF ZeroDim(vep_fs_lut) THEN Written(NoFile, "TypeError")
    ELSE ParcLoop(regs, GenFromTxt(vep_fs_lut, 2), GenFromTxtColors(vep_fs_lut), 0,
                  << <<0, "Unknown", 0, 0, 0, 0>> >>)

CreateParcLut ==
    /\ pc = "create_parc_lut"
    /\ UNCHANGED <<Inputs, newregs>>
    /\ Finish("vep_aparc_lut_file",
              ParcLut(Masked(vep_regs, vep_iscort), out["vep_fs_lut_file"].lines),
              "done")


Next ==
    \/ LoadRules
    \/ CheckColors
    \/ CheckCortical
    \/ CheckSubcortical
    \/ CheckOrdering
    \/ CreateVepFsLut
    \/ CreateVepMrtrixLut
    \/ CreateSubcortList
    \/ CreateParcLut

Spec == Init /\ [][Next]_vars

(***************************************************************************)
(* Properties.                                                             *)
(***************************************************************************)
Validating ==
    {"load_rules", "check_colors", "check_cortical", "check_subcortical",
     "check_ordering"}

Untouched == \A f \in OutputFiles : out[f] = NoFile

FsLutWritten ==
    pc \in {"create_vep_mrtrix_lut", "create_subcort_list", "create_parc_lut", "done"}

\* The lines create_vep_fs_lut appended after the reference lines.
NewRows ==
    LET data == DataLines(out["vep_fs_lut_file"].lines)
    IN SubSeq(data, Len(DataLines(fs_lut_file)) + 1, Len(data))

NewIndices(hemi) ==
    {NewRows[k][1] : k \in {i \in 1..Len(NewRows) :
                              NewRows[i][2] \in {hemi \o "-" \o r : r \in RegionNames}}}

RefIndices == {DataLines(fs_lut_file)[k][1] : k \in 1..Len(DataLines(fs_lut_file))}

\* C1: a run that validation ended, with whichever validator error, has
\* opened none of the four output files; nor has a run still validating.
C1_NoOutputOnValidationFailure ==
    /\ (pc = "failed" /\ err[1] \in ValidatorErrors) => Untouched
    /\ pc \in Validating => Untouched

C1_Witness == pc = "failed" /\ err[1] = "Ordering" /\ Untouched

\* C2: once the combined LUT is written, its new Left indices, its new Right
\* indices and the reference indices are pairwise disjoint.
C2_IndexDisjointness ==
    FsLutWritten =>
        /\ NewIndices("Left") \cap NewIndices("Right") = {}
        /\ (NewIndices("Left") \cup NewIndices("Right")) \cap RefIndices = {}

Column(lines, c) == [k \in 1..Len(lines) |-> lines[k][c]]

UpTo(n) == [k \in 1..(n + 1) |-> k - 1]

\* C3 as stated: the renumbered LUT's indices are 0..N with N the number of
\* target regions, the cortical LUT's 0..M with M the number of cortical ones.
C3_SequentialAsStated ==
    pc = "done" =>
        /\ Column(out["vep_mrtrix_lut_file"].lines, 1) = UpTo(Len(vep_regs))
        /\ Column(out["vep_aparc_lut_file"].lines, 1) = UpTo(Len(Masked(vep_regs, vep_iscort)))

\* C3 amended: the renumbered LUT's indices are 0..2N, one entry per target
\* region and hemisphere after "Unknown" at 0; the cortical LUT's are 0..M.
C3_SequentialNumbering ==
    pc = "done" =>
        /\ Column(out["vep_mrtrix_lut_file"].lines, 1) = UpTo(2 * Len(vep_regs))
        /\ Column(out["vep_aparc_lut_file"].lines, 1) = UpTo(Len(Masked(vep_regs, vep_iscort)))
        /\ out["vep_mrtrix_lut_file"].lines[1][2] = "Unknown"
        /\ out["vep_aparc_lut_file"].lines[1][2] = "Unknown"

C3_Witness ==
    /\ pc = "done"
    /\ Len(vep_regs) = 2
    /\ Len(out["vep_mrtrix_lut_file"].lines) = 5
    /\ Len(out["vep_aparc_lut_file"].lines) = 3

\* C4: every entry of the renumbered LUT has the colour of each entry of the
\* combined LUT with its name, and every entry of the cortical LUT the
\* colour of each entry of the combined LUT named "Left-<region>".
C4_SameColorAsCombined ==
    pc = "done" =>
        LET combined == DataLines(out["vep_fs_lut_file"].lines)
            mrtrix == out["vep_mrtrix_lut_file"].lines
            aparc == out["vep_aparc_lut_file"].lines
        IN /\ \A c \in 1..Len(combined), e \in 2..Len(mrtrix) :
                mrtrix[e][2] = combined[c][2]
                    => SubSeq(mrtrix[e], 3, 6) = SubSeq(combined[c], 3, 6)
           /\ \A c \in 1..Len(combined), e \in 2..Len(aparc) :
                "Left-" \o aparc[e][2] = combined[c][2]
                    => SubSeq(aparc[e], 3, 6) = SubSeq(combined[c], 3, 6)

\* The positions of the target table whose colour an earlier position has.
LaterOfSameColor ==
    {j \in 1..Len(vep_colors) : \E i \in 1..(j - 1) : vep_colors[i] = vep_colors[j]}

FirstOfColor(j) ==
    CHOOSE i \in 1..j : /\ vep_colors[i] = vep_colors[j]
                        /\ \A h \in 1..(i - 1) : vep_colors[h] # vep_colors[j]

\* One triple (colour, first region of that colour, later region) for each
\* later region, in the order of the table.
AllCollisions ==
    Masked([j \in 1..Len(vep_colors) |->
              <<vep_colors[j], vep_regs[FirstOfColor(j)], vep_regs[j]>>],
           [j \in 1..Len(vep_colors) |-> j \in LaterOfSameColor])

\* The run got as far as calling duplicates().
ColorCheckRan ==
    /\ pc \notin {"load_rules", "check_colors"}
    /\ ~(pc = "failed" /\ err[1] = "MalformedRule")
    /\ ~(pc = "failed" /\ err[1] = "TypeError" /\ err[2] = "fs_lut_file")

ValidateAgrees ==
    /\ pc = "failed" /\ err[1] # "ValueError"
          => err = Validate(fs_lut_file, vep_rules_file, vep_regions_file)
    /\ pc \notin Validating \cup {"failed"}
          => Validate(fs_lut_file, vep_rules_file, vep_regions_file) = NoError

WithoutRule(rules, r) == SubSeq(rules, 1, r - 1) \o SubSeq(rules, r + 1, Len(rules))

Outputs(rule) == {rule[3][k] : k \in 1..Len(rule[3])}

CorticalPositions == {k \in 1..Len(vep_regs) : vep_iscort[k]}

\* The cortical positions whose "%H-<name>" the rules no longer produce.
Unruled(rules) ==
    LET produced == UNION {Outputs(rules[k]) : k \in 1..Len(rules)}
    IN {k \in CorticalPositions : ("%H-" \o vep_regs[k]) \notin produced}

\* The cortical check passes for a region iff "%H-<name>" is a rule output.
CorticalCheckExact ==
    /\ pc \notin Validating \cup {"failed"} => Unruled(vep_rules_file) = {}
    /\ (pc = "failed" /\ err[1] = "MissingRule")
          => \E k \in Unruled(vep_rules_file) :
                /\ err[2] = vep_regs[k]
                /\ \A j \in Unruled(vep_rules_file) : k <= j

\* C6 as stated: on a validated input, removing a rule that produces
\* "%H-<name>" of a cortical region fails validation naming that region.
C6_RemovedRuleAsStated ==
    /\ CorticalCheckExact
    /\ pc = "create_vep_fs_lut" =>
          \A r \in 1..Len(vep_rules_file), k \in CorticalPositions :
              ("%H-" \o vep_regs[k]) \in Outputs(vep_rules_file[r])
                 => Validate(fs_lut_file, WithoutRule(vep_rules_file, r), vep_regions_file)
                      = <<"MissingRule", vep_regs[k]>>

\* C6 amended: removing a rule after which some cortical region's
\* "%H-<name>" is no longer produced fails validation with a missing-rule
\* error naming the first such region in target order; and the cortical
\* check passes for a region iff "%H-<name>" is a rule output.
C6_RemovedRuleNamesFirstUnruled ==
    /\ CorticalCheckExact
    /\ pc = "create_vep_fs_lut" =>
          \A r \in 1..Len(vep_rules_file) :
              LET rest == WithoutRule(vep_rules_file, r) IN
              Unruled(rest) # {} =>
                 \E k \in Unruled(rest) :
                    /\ \A j \in Unruled(rest) : k <= j
                    /\ Validate(fs_lut_file, rest, vep_regions_file)
                         = <<"MissingRule", vep_regs[k]>>

C6_Witness ==
    /\ pc = "create_vep_fs_lut"
    /\ Len(vep_rules_file) = 1
    /\ Cardinality(Unruled(<<>>)) = 2
    /\ vep_regs[1] # vep_regs[2]

SubcortRegs == Masked(vep_regs, Not(vep_iscort))

\* A subcortical region with a rule output, or with both hemispheres in the
\* reference table.
CoveredByRuleOrReference(reg) ==
    \/ ("%H-" \o reg) \in {newregs[k] : k \in 1..Len(newregs)}
    \/ {"Left-" \o reg, "Right-" \o reg} \subseteq {fs_regs[k] : k \in 1..Len(fs_regs)}

SubcortCheckRan ==
    /\ pc \notin {"load_rules", "check_colors", "check_cortical", "check_subcortical"}
    /\ ~(pc = "failed"
         /\ err[1] \in {"MalformedRule", "TypeError", "DuplicateColor", "MissingRule"})

\* The name the k-th line of the subcortical list stands for: the Left
\* names in target order, then the Right names in target order.
SubcortName(k) ==
    IF k <= Len(SubcortRegs) THEN "Left-" \o SubcortRegs[k]
    ELSE "Right-" \o SubcortRegs[k - Len(SubcortRegs)]

\* C7: the coverage check passes iff every subcortical region has a rule
\* output or both hemisphere names in the reference table; and the
\* subcortical list holds, Left block then Right block in target order, an
\* index the combined LUT gives the name, the reference index for a
\* reference name.
C7_SubcortListKeepsOriginalIndices ==
    /\ SubcortCheckRan =>
          (err[1] = "SubcortCoverage"
              <=> \E k \in 1..Len(SubcortRegs) : ~CoveredByRuleOrReference(SubcortRegs[k]))
    /\ pc \in {"create_parc_lut", "done"} =>
          LET list == out["vep_subcort_file"].lines
              combined == DataLines(out["vep_fs_lut_file"].lines)
              reference == DataLines(fs_lut_file)
          IN /\ Len(list) = 2 * Len(SubcortRegs)
             /\ \A k \in 1..Len(list) :
                   /\ Len(list[k]) = 1
                   /\ \E c \in 1..Len(combined) :
                         combined[c][1] = list[k][1] /\ combined[c][2] = SubcortName(k)
                   /\ InSeq(SubcortName(k), fs_regs) =>
                         \E c \in 1..Len(reference) :
                            reference[c][1] = list[k][1] /\ reference[c][2] = SubcortName(k)

C7_Witness ==
    /\ pc = "done"
    /\ ~InSeq("%H-Hippocampus", newregs)
    /\ InSeq("Hippocampus", SubcortRegs)
    /\ vep_regs[1] # vep_regs[2]
    /\ out["vep_subcort_file"].lines = << <<17>>, <<53>> >>

\* A subcortical row somewhere before a cortical row.
Misordered ==
    \E i, j \in 1..Len(vep_iscort) : i < j /\ ~vep_iscort[i] /\ vep_iscort[j]

\* C8 as stated: a run on a misordered target table ends with the ordering
\* error.
C8_OrderingErrorAsStated ==
    (Misordered /\ pc \in {"failed", "done"}) => err[1] = "Ordering"

\* What the checks before the ordering check require.
EarlierChecksPass ==
    /\ ~ZeroDim(fs_lut_file)
    /\ ~ZeroDim(vep_regions_file)
    /\ \A k \in 1..Len(vep_rules_file) :
          Outputs(vep_rules_file[k]) \subseteq HemiTemplates \cup TempRegs
    /\ LaterOfSameColor = {}
    /\ Unruled(vep_rules_file) = {}
    /\ \A k \in 1..Len(SubcortRegs) :
          \/ \E r \in 1..Len(vep_rules_file) :
                ("%H-" \o SubcortRegs[k]) \in Outputs(vep_rules_file[r])
          \/ {"Left-" \o SubcortRegs[k], "Right-" \o SubcortRegs[k]}
                \subseteq {fs_regs[c] : c \in 1..Len(fs_regs)}

\* C8 amended: a misordered target table is always rejected before any
\* builder runs, no output file is opened, and the error is the ordering
\* error whenever the checks that run before the ordering check pass.
C8_MisorderedRejected ==
    Misordered =>
        /\ pc \in Validating \cup {"failed"}
        /\ Untouched
        /\ pc = "failed" => err[1] \in ValidatorErrors \cup {"TypeError"}
        /\ (pc = "failed" /\ EarlierChecksPass) => err[1] = "Ordering"
        /\ (pc = "failed" /\ err[1] = "Ordering") => EarlierChecksPass

C8_Witness ==
    /\ pc = "failed"
    /\ err[1] = "Ordering"
    /\ Len(vep_iscort) = 3
    /\ vep_iscort[1] /\ ~vep_iscort[2] /\ vep_iscort[3]

\* The target positions whose name in hemisphere hemi is not a reference name.
NewPositions(hemi) ==
    {j \in 1..Len(vep_regs) : ~InSeq(hemi \o "-" \o vep_regs[j], fs_regs)}

Rank(P, j) == Cardinality({i \in P : i <= j})

\* The block the claim describes for one hemisphere: the k-th new region of
\* the table, in target order, at index offset + k with the region's colour.
ExpectedBlock(hemi, offset) ==
    [k \in 1..Cardinality(NewPositions(hemi)) |->
        LET j == CHOOSE p \in NewPositions(hemi) : Rank(NewPositions(hemi), p) = k
        IN <<offset + k, hemi \o "-" \o vep_regs[j]>> \o vep_colors[j]]

\* C9: the combined LUT is the reference file unchanged, then the Left block
\* and the Right block; a block numbers the regions that are no reference
\* names from offset + 1 on, without gaps, in target order, and holds no
\* reference name.
C9_FullLutBlocks ==
    FsLutWritten =>
        LET file == out["vep_fs_lut_file"].lines IN
        /\ SubSeq(file, 1, Len(fs_lut_file)) = fs_lut_file
        /\ DataLines(SubSeq(file, Len(fs_lut_file) + 1, Len(file)))
              = ExpectedBlock("Left", 71000) \o ExpectedBlock("Right", 72000)
        /\ \A k \in 1..Len(NewRows) : ~InSeq(NewRows[k][2], fs_regs)

C9_Witness ==
    /\ pc = "done"
    /\ Len(vep_regs) = 3
    /\ InSeq("Left-" \o vep_regs[1], fs_regs)
    /\ ~InSeq("Right-" \o vep_regs[1], fs_regs)
    /\ vep_regs[2] # vep_regs[1]
    /\ Len(NewRows) = 4
    /\ NewRows[1][1] = 71001 /\ NewRows[2][1] = 72001 /\ NewRows[4][1] = 72003

Complete(f) ==
    /\ out[f].opened
    /\ Len(DataLines(out[f].lines)) =
          CASE f = "vep_fs_lut_file" ->
                  Len(fs_regs) + Cardinality(NewPositions("Left"))
                     + Cardinality(NewPositions("Right"))
            [] f = "vep_mrtrix_lut_file" -> 1 + 2 * Len(vep_regs)
            [] f = "vep_subcort_file" -> 2 * Len(SubcortRegs)
            [] f = "vep_aparc_lut_file" -> 1 + Len(vep_regs) - Len(SubcortRegs)

BuildersInOrder ==
    /\ pc = "check_ordering" => pc' \in {"create_vep_fs_lut", "failed"}
    /\ pc = "create_vep_fs_lut" => pc' = "create_vep_mrtrix_lut"
    /\ pc = "create_vep_mrtrix_lut" => pc' = "create_subcort_list"
    /\ pc = "create_subcort_list" => pc' = "create_parc_lut"
    /\ pc = "create_parc_lut" => pc' = "done"

FilesByStage ==
    /\ err[1] # "ValueError"
    /\ pc = "failed" => Untouched
    /\ pc = "create_vep_fs_lut" => Untouched
    /\ FsLutWritten =>
          /\ Complete("vep_fs_lut_file")
          /\ \A j \in 1..Len(vep_regs) :
                /\ InSeq("Left-" \o vep_regs[j], GenFromTxt(out["vep_fs_lut_file"].lines, 2))
                /\ InSeq("Right-" \o vep_regs[j], GenFromTxt(out["vep_fs_lut_file"].lines, 2))
    /\ pc = "create_vep_mrtrix_lut" =>
          \A f \in OutputFiles \ {"vep_fs_lut_file"} : out[f] = NoFile
    /\ pc = "create_subcort_list" =>
          /\ Complete("vep_mrtrix_lut_file")
          /\ out["vep_subcort_file"] = NoFile /\ out["vep_aparc_lut_file"] = NoFile
    /\ pc = "create_parc_lut" =>
          /\ Complete("vep_mrtrix_lut_file") /\ Complete("vep_subcort_file")
          /\ out["vep_aparc_lut_file"] = NoFile
    /\ pc = "done" => \A f \in OutputFiles : Complete(f)

\* C10: after a successful validation the combined LUT is written first and
\* holds "Left-<region>" and "Right-<region>" of every target region; no
\* builder raises a look-up error, every builder step leads to the next one
\* in the order combined, renumbered, subcortical, cortical, and the run
\* ends with the four files complete.
C10_BuildersNeverFailLookup == []FilesByStage /\ [][BuildersInOrder]_vars

C10_Witness ==
    /\ pc = "done"
    /\ \A f \in OutputFiles : Complete(f)
    /\ Len(vep_regs) = 3
    /\ \E j \in 1..Len(vep_regs) :
          InSeq("Left-" \o vep_regs[j], fs_regs) /\ ~InSeq("Right-" \o vep_regs[j], fs_regs)

====
